---- MODULE Spec2Model ----
(***************************************************************************)
(* A model of the example circuits of halo2-study and of the mock prover   *)
(* that checks them: configure declares columns, selectors, gates and      *)
(* lookups; synthesize assigns the witness region by region; verify        *)
(* replays the grid against every gate, copy constraint and lookup.        *)
(*                                                                         *)
(* Field elements are integers modulo the prime P.  The pasta field Fp of  *)
(* the source has a 255-bit modulus; P is a small prime above every        *)
(* constant of the examples (55, 255, 256), so the algebra that the gates  *)
(* rely on (no zero divisors, inverses) is that of a prime field.          *)
(***************************************************************************)
EXTENDS Integers, Sequences, FiniteSets, TLC

\* ------------------------------------------------------------------ bounds

\* Seeds f(0), f(1) of the public-input vector range over 1..MaxSeed.
MaxSeed == 2
\* A tampered cell is moved by +d or -d for d in 1..MaxDelta.
MaxDelta == 1
\* expose_public may be called up to MaxExpose times with the same arguments.
MaxExpose == 2
\* Inputs a, b, c of the conditional-selection circuit: 0..MaxFuncVal, plus
\* the test's 12 and 15 and the top of the field.
MaxFuncVal == 1
\* A caller may hand the prover a k up to MaxShrink below the k of the test.
MaxShrink == 2
\* assign_row of the rotation layouts is called with nrows in 2..MaxNRows.
MaxNRows == 6
\* RangeCheckTable::assign is tried for NUM_BITS in 0..MaxTableBits.
MaxTableBits == 4

\* ------------------------------------------------------- program constants

P == 263
K_FIB == 4
K_RANGE2 == 9
RANGE == 8
NUM_BITS == 8
RANGE_CHECK_BITS == 3
FIB1_LOOP_FROM == 3
FIB1_LOOP_TO == 10
FIB2_NROWS == 5
FIB3_NROWS == 10
OUT_ROW == 2

\* ------------------------------------------------------------------- field

Fp == 0 .. (P - 1)
FAdd(x, y) == (x + y) % P
FSub(x, y) == (x - y + P) % P
FMul(x, y) == (x * y) % P
FromU64(n) == n % P

\* x^n by repeated squaring
RECURSIVE FPow(_, _)
FPow(x, n) ==
  IF n = 0 THEN 1
  ELSE LET h == FPow(x, n \div 2)
       IN  IF n % 2 = 0 THEN FMul(h, h) ELSE FMul(x, FMul(h, h))

\* x.invert().unwrap_or(0): the inverse x^(P-2), and 0 for x = 0.
InvertTable == [x \in Fp |-> IF x = 0 THEN 0 ELSE FPow(x, P - 2)]
InvertOrZero(x) == InvertTable[x]

\* ---------------------------------------------------------------- circuits

FibCircuits == {"fib1", "fib2", "fib3"}
RangeCircuits == {"rc1", "rc2"}
Circuits == FibCircuits \cup RangeCircuits \cup {"func"}

\* The k handed to MockProver::run by each example's test.
KOf(c) == IF c = "rc2" THEN K_RANGE2 ELSE K_FIB
\* The nrows handed to assign_row by the synthesize of the rotation layouts.
NRowsOf(c) == IF c = "fib2" THEN FIB2_NROWS ELSE IF c = "fib3" THEN FIB3_NROWS ELSE 0

VARIABLES
  k,           \* the circuit size parameter handed to MockProver::run
  nrowsArg,    \* the nrows argument of assign_row (examples 2 and 3)
  circuit,     \* which example circuit is being run
  instance,    \* the public-input vector handed to the prover
  input,       \* the circuit's private fields (v; a, b, c) and num_bits
  cs,          \* the ConstraintSystem built by configure
  advice,      \* assigned advice cells: <<column, row>> -> value
  selectors,   \* enabled selectors: set of <<selector, row>>
  copies,      \* copy constraints in registration order: <<cellA, cellB>>
  table,       \* lookup-table assignments in order: <<row, value>>
  offset,      \* the layouter's next free row
  regions,     \* regions placed so far: [name, start, rows]
  pc,          \* configure, synthesize, synthesized, verified, aborted, error;
               \* witnessing, witness verified (a grid filled by any prover)
  step,        \* number of regions requested so far by synthesize
  prev_b,      \* AssignedCell carried between regions (example1)
  prev_c,      \* AssignedCell carried between regions / the exposed cell
  exposeCount, \* number of expose_public calls made
  tamper,      \* the single perturbation applied to the grid, if any
  failures     \* the checker's violations

vars == <<k, nrowsArg, circuit, instance, input, cs, advice, selectors, copies, table,
          offset, regions, pc, step, prev_b, prev_c, exposeCount, tamper,
          failures>>

\* Mutant: a grid of twice the rows.
NRowsDouble(c) == 2 ^ (k + 1)

\* The grid of circuit c has 2^k rows.
NRows(c) == 2 ^ k
Rows(c) == 0 .. (NRows(c) - 1)

\* ------------------------------------------------------------- data model

Cell(col, row) == <<col, row>>
AssignedCell(col, row, v) == [cell |-> Cell(col, row), value |-> v]
NoCell == [cell |-> Cell("none", 0), value |-> 0]
NoTamper == [done |-> FALSE, cell |-> Cell("none", 0), old |-> 0, new |-> 0,
             assigned |-> FALSE]
EmptyCS == [advice |-> {}, instance |-> {}, selectors |-> {}, tables |-> {},
            equality |-> {}, gates |-> {}, lookups |-> {}]
NoInput == [v |-> 0, a |-> 0, b |-> 0, c |-> 0, num_bits |-> 0]

\* A cell never assigned reads as field zero.
CellVal(g, col, row) == IF Cell(col, row) \in DOMAIN g THEN g[Cell(col, row)] ELSE 0
SelVal(s, sel, row) == IF <<sel, row>> \in s THEN 1 ELSE 0
\* The instance column: the public inputs, padded with zero.
InstVal(inst, row) == IF row < Len(inst) THEN inst[row + 1] ELSE 0
\* The value a copy-constrained cell holds.
AnyVal(g, inst, cell) ==
  IF cell[1] = "instance" THEN InstVal(inst, cell[2]) ELSE CellVal(g, cell[1], cell[2])
\* A query at rotation rot from row, on a domain of n rows.
Rot(row, rot, n) == (row + rot) % n

\* -------------------------------------------------------------- configure

\* fibonacci/example1 FibonacciChip::configure
Fib1CS == [advice |-> {"col_a", "col_b", "col_c"}, instance |-> {"instance"},
           selectors |-> {"selector"}, tables |-> {},
           equality |-> {"col_a", "col_b", "col_c", "instance"},
           gates |-> {"add"}, lookups |-> {}]

\* fibonacci/example2 FibonacciChip::configure
Fib2CS == [advice |-> {"col_a", "col_b"}, instance |-> {"instance"},
           selectors |-> {"selector"}, tables |-> {},
           equality |-> {"col_a", "col_b", "instance"},
           gates |-> {"add"}, lookups |-> {}]

\* fibonacci/example3 FibonacciChip::configure
Fib3CS == [advice |-> {"advice"}, instance |-> {"instance"},
           selectors |-> {"selector"}, tables |-> {},
           equality |-> {"advice", "instance"},
           gates |-> {"add"}, lookups |-> {}]

\* The name example4 gives its gate.
FuncGateName == "f(a, b, c) = if a == b {c} else {a - b}"

\* fibonacci/example4 FunctionChip::configure, with the is-zero gadget's gate
FuncCS == [advice |-> {"col_a", "col_b", "col_c", "is_zero_advice_col", "output"},
           instance |-> {}, selectors |-> {"selector"}, tables |-> {},
           equality |-> {},
           gates |-> {"is_zero", FuncGateName},
           lookups |-> {}]

\* range_check/example1 RangeCheckChip::configure
Range1CS == [advice |-> {"value"}, instance |-> {},
             selectors |-> {"q_range_check"}, tables |-> {},
             equality |-> {}, gates |-> {"range check"}, lookups |-> {}]

\* range_check/example2 RangeCheckConfig::configure and RangeCheckTable::configure
Range2CS == [advice |-> {"value"}, instance |-> {},
             selectors |-> {"q_range_check", "q_lookup"}, tables |-> {"table"},
             equality |-> {}, gates |-> {"range check"}, lookups |-> {"lookup"}]

ConfigureCS(c) ==
  CASE c = "fib1" -> Fib1CS
    [] c = "fib2" -> Fib2CS
    [] c = "fib3" -> Fib3CS
    [] c = "func" -> FuncCS
    [] c = "rc1" -> Range1CS
    [] c = "rc2" -> Range2CS

\* ------------------------------------------------------------------ gates
\* Each gate is the list of its sub-constraint polynomials, evaluated at one
\* row of a grid g under the selector assignment s.

\* Mutant: the gate without its selector factor.
Fib1AddUngated(g, s, row) ==
  LET a == CellVal(g, "col_a", row)
      b == CellVal(g, "col_b", row)
      c == CellVal(g, "col_c", row)
  IN  << FSub(FAdd(a, b), c) >>

\* example1 "add": s * (a + b - c), all at Rotation::cur
Fib1Add(g, s, row) ==
  LET a == CellVal(g, "col_a", row)
      b == CellVal(g, "col_b", row)
      c == CellVal(g, "col_c", row)
      sel == SelVal(s, "selector", row)
  IN  << FMul(sel, FSub(FAdd(a, b), c)) >>

\* Mutant: the second sub-constraint adds a where the source adds b.
Fib2AddWrongOperand(g, s, row) ==
  LET n == NRows("fib2")
      sel == SelVal(s, "selector", row)
      a == CellVal(g, "col_a", row)
      b == CellVal(g, "col_b", row)
      next_a == CellVal(g, "col_a", Rot(row, 1, n))
      next_b == CellVal(g, "col_b", Rot(row, 1, n))
  IN  << FMul(sel, FSub(FAdd(a, b), next_a)),
         FMul(sel, FSub(FAdd(a, next_a), next_b)) >>

\* example2 "add": s * (a + b - next_a), s * (b + next_a - next_b)
Fib2Add(g, s, row) ==
  LET n == NRows("fib2")
      sel == SelVal(s, "selector", row)
      a == CellVal(g, "col_a", row)
      b == CellVal(g, "col_b", row)
      next_a == CellVal(g, "col_a", Rot(row, 1, n))
      next_b == CellVal(g, "col_b", Rot(row, 1, n))
  IN  << FMul(sel, FSub(FAdd(a, b), next_a)),
         FMul(sel, FSub(FAdd(b, next_a), next_b)) >>

\* example3 "add": s * (a + b - c) at rotations 0, 1, 2 of one column
Fib3Add(g, s, row) ==
  LET n == NRows("fib3")
      a == CellVal(g, "advice", row)
      b == CellVal(g, "advice", Rot(row, 1, n))
      c == CellVal(g, "advice", Rot(row, 2, n))
      sel == SelVal(s, "selector", row)
  IN  << FMul(sel, FSub(FAdd(a, b), c)) >>

\* The closure range_check of both range-check examples:
\* (1..range).fold(value, |expr, i| expr * (i - value))
\* The fold multiplies value by (i - value) for i = lo..hi in turn; the product
\* is computed here by halving the index range, which gives the same element.
RECURSIVE RangeCheckFold(_, _, _)
RangeCheckFold(lo, hi, value) ==
  IF lo > hi THEN 1
  ELSE IF lo = hi THEN FSub(FromU64(lo), value)
  ELSE LET mid == (lo + hi) \div 2
       IN  FMul(RangeCheckFold(lo, mid, value), RangeCheckFold(mid + 1, hi, value))

\* Mutant: the fold runs over 1..=range.
range_check_inclusive(range, value) == FMul(value, RangeCheckFold(1, range, value))

range_check(range, value) == FMul(value, RangeCheckFold(1, range - 1, value))

\* Mutant: the lookup circuit's gate built for the range 1 << RANGE_CHECK_BITS.
Range2PolySmall == [v \in Fp |-> range_check(2 ^ RANGE_CHECK_BITS, v)]

\* range_check(RANGE, v) and range_check(1 << NUM_BITS, v), tabulated over the field
Range1Poly == [v \in Fp |-> range_check(RANGE, v)]
Range2Poly == [v \in Fp |-> range_check(2 ^ NUM_BITS, v)]

\* example1 "range check": Constraints::with_selector(s, [("range check", ...)])
Range1Gate(g, s, row) ==
  LET v == CellVal(g, "value", row)
      sel == SelVal(s, "q_range_check", row)
  IN  << FMul(sel, Range1Poly[v]) >>

\* example2 "range check", over the range 1 << NUM_BITS
Range2Gate(g, s, row) ==
  LET v == CellVal(g, "value", row)
      sel == SelVal(s, "q_range_check", row)
  IN  << FMul(sel, Range2Poly[v]) >>

\* example2 lookup input: q_lookup * value, looked up in table.value
Range2LookupInput(g, s, row) ==
  LET q_lookup == SelVal(s, "q_lookup", row)
      value == CellVal(g, "value", row)
  IN  FMul(q_lookup, value)

\* The is-zero gadget configured on value = a - b with inverse witness
\* is_zero_advice_col: is_zero_expr = 1 - value * value_inv.
IsZeroValue(g, row) == FSub(CellVal(g, "col_a", row), CellVal(g, "col_b", row))
IsZeroExpr(g, row) ==
  FSub(1, FMul(IsZeroValue(g, row), CellVal(g, "is_zero_advice_col", row)))
\* The gadget's own gate: q_enable * value * (1 - value * value_inv)
IsZeroGate(g, s, row) ==
  << FMul(SelVal(s, "selector", row), FMul(IsZeroValue(g, row), IsZeroExpr(g, row))) >>

\* Mutant: the second sub-constraint carries a_equal_b, not 1 - a_equal_b.
FuncGateSameFactor(g, s, row) ==
  LET sel == SelVal(s, "selector", row)
      a == CellVal(g, "col_a", row)
      b == CellVal(g, "col_b", row)
      c == CellVal(g, "col_c", row)
      output == CellVal(g, "output", row)
      a_equal_b == IsZeroExpr(g, row)
  IN  << FMul(sel, FMul(a_equal_b, FSub(output, c))),
         FMul(FMul(sel, a_equal_b), FSub(output, FSub(a, b))) >>

\* example4 gate: s * (a_equal_b * (output - c)),
\*                s * (1 - a_equal_b) * (output - (a - b))
FuncGate(g, s, row) ==
  LET sel == SelVal(s, "selector", row)
      a == CellVal(g, "col_a", row)
      b == CellVal(g, "col_b", row)
      c == CellVal(g, "col_c", row)
      output == CellVal(g, "output", row)
      a_equal_b == IsZeroExpr(g, row)
  IN  << FMul(sel, FMul(a_equal_b, FSub(output, c))),
         FMul(FMul(sel, FSub(1, a_equal_b)), FSub(output, FSub(a, b))) >>

\* The advice cells that sub-constraint i (from 1) of the Fibonacci gate "add"
\* queries at `row`: example2's first reads a, b, next_a and its second b,
\* next_a, next_b; examples 1 and 3 have the one sub-constraint.
FibConstraintCells(c, i, row) ==
  LET n == NRows(c) IN
  CASE c = "fib1" -> {Cell("col_a", row), Cell("col_b", row), Cell("col_c", row)}
    [] c = "fib2" /\ i = 1 ->
         {Cell("col_a", row), Cell("col_b", row), Cell("col_a", Rot(row, 1, n))}
    [] c = "fib2" /\ i = 2 ->
         {Cell("col_b", row), Cell("col_a", Rot(row, 1, n)), Cell("col_b", Rot(row, 1, n))}
    [] c = "fib3" -> {Cell("advice", row), Cell("advice", Rot(row, 1, n)),
                      Cell("advice", Rot(row, 2, n))}

\* The sub-constraint values of gate `gate` of circuit c at `row`.
GateEval(c, gate, g, s, row) ==
  CASE c = "fib1" -> Fib1Add(g, s, row)
    [] c = "fib2" -> Fib2Add(g, s, row)
    [] c = "fib3" -> Fib3Add(g, s, row)
    [] c = "rc1" -> Range1Gate(g, s, row)
    [] c = "rc2" -> Range2Gate(g, s, row)
    [] c = "func" -> IF gate = "is_zero" THEN IsZeroGate(g, s, row)
                     ELSE FuncGate(g, s, row)

\* The name of sub-constraint i: with_selector names it, a plain vec does not.
ConstraintName(c, gate, i) == IF c \in RangeCircuits THEN "range check" ELSE ""

\* The selector that gates `gate`.
GateSelector(c, gate) == IF c \in RangeCircuits THEN "q_range_check" ELSE "selector"

\* The advice cells gate `gate` queries at `row`.
GateCells(c, gate, row) ==
  LET n == NRows(c) IN
  CASE c = "fib1" -> {Cell("col_a", row), Cell("col_b", row), Cell("col_c", row)}
    [] c = "fib2" -> {Cell("col_a", row), Cell("col_b", row),
                      Cell("col_a", Rot(row, 1, n)), Cell("col_b", Rot(row, 1, n))}
    [] c = "fib3" -> {Cell("advice", row), Cell("advice", Rot(row, 1, n)),
                      Cell("advice", Rot(row, 2, n))}
    [] c \in RangeCircuits -> {Cell("value", row)}
    [] c = "func" ->
         IF gate = "is_zero"
         THEN {Cell("col_a", row), Cell("col_b", row), Cell("is_zero_advice_col", row)}
         ELSE {Cell("col_a", row), Cell("col_b", row), Cell("col_c", row),
               Cell("is_zero_advice_col", row), Cell("output", row)}

\* ------------------------------------------------- region and layouter API

\* region.assign_advice(column, row, value): one AssignedCell
AssignAdvice(col, row, v) == Cell(col, row) :> v

\* layouter.constrain_instance / region.constrain_equal: one copy constraint
CopyConstraint(a, b) == <<a, b>>

\* What a region body did: cells assigned, selectors enabled, copy constraints
\* registered, the rows it spans and the AssignedCells it holds (for the
\* two-column layout b is a_cell and c is b_cell).
RegionResult(cells, sels, cps, rows, b, c) ==
  [cells |-> cells, sels |-> sels, copies |-> cps, rows |-> rows, b |-> b, c |-> c]

\* ------------------------------------------------------------- synthesize

\* Mutant: the seeds assigned with assign_advice, no copy constraint.
Fib1FirstRowNoCopy(start, inst) ==
  LET a == InstVal(inst, 0)
      b == InstVal(inst, 1)
      c == FAdd(a, b)
  IN  RegionResult(
        AssignAdvice("col_a", start, a) @@ AssignAdvice("col_b", start, b)
          @@ AssignAdvice("col_c", start, c),
        {<<"selector", start>>}, << >>, 1,
        AssignedCell("col_b", start, b),
        AssignedCell("col_c", start, c))

\* example1 assign_first_row: f(0), f(1) from the instance column, c = a + b
Fib1FirstRow(start, inst) ==
  LET a == InstVal(inst, 0)
      b == InstVal(inst, 1)
      c == FAdd(a, b)
  IN  RegionResult(
        AssignAdvice("col_a", start, a) @@ AssignAdvice("col_b", start, b)
          @@ AssignAdvice("col_c", start, c),
        {<<"selector", start>>},
        << CopyConstraint(Cell("col_a", start), Cell("instance", 0)),
           CopyConstraint(Cell("col_b", start), Cell("instance", 1)) >>,
        1,
        AssignedCell("col_b", start, b),
        AssignedCell("col_c", start, c))

\* Mutant: c is assigned at row 1 of the region, which then spans two rows.
Fib1AssignRowTwoRows(start, pb, pcc) ==
  LET c == FAdd(pb.value, pcc.value)
  IN  RegionResult(
        AssignAdvice("col_a", start, pb.value) @@ AssignAdvice("col_b", start, pcc.value)
          @@ AssignAdvice("col_c", start + 1, c),
        {<<"selector", start>>},
        << CopyConstraint(Cell("col_a", start), pb.cell),
           CopyConstraint(Cell("col_b", start), pcc.cell) >>,
        2,
        pcc,
        AssignedCell("col_c", start + 1, c))

\* Mutant: a is copied from prev_c and b from prev_b.
Fib1AssignRowSwapped(start, pb, pcc) ==
  LET c == FAdd(pb.value, pcc.value)
  IN  RegionResult(
        AssignAdvice("col_a", start, pcc.value) @@ AssignAdvice("col_b", start, pb.value)
          @@ AssignAdvice("col_c", start, c),
        {<<"selector", start>>},
        << CopyConstraint(Cell("col_a", start), pcc.cell),
           CopyConstraint(Cell("col_b", start), pb.cell) >>,
        1,
        pcc,
        AssignedCell("col_c", start, c))

\* example1 assign_row: copy prev_b, prev_c into a, b and assign c = prev_b + prev_c
Fib1AssignRow(start, pb, pcc) ==
  LET c == FAdd(pb.value, pcc.value)
  IN  RegionResult(
        AssignAdvice("col_a", start, pb.value) @@ AssignAdvice("col_b", start, pcc.value)
          @@ AssignAdvice("col_c", start, c),
        {<<"selector", start>>},
        << CopyConstraint(Cell("col_a", start), pb.cell),
           CopyConstraint(Cell("col_b", start), pcc.cell) >>,
        1,
        pcc,
        AssignedCell("col_c", start, c))

\* Mutant: the loop over 3..=10.
Fib1IterationsInclusive == FIB1_LOOP_TO - FIB1_LOOP_FROM + 1

\* The number of assign_row calls of example1's synthesize: for _i in 3..10
Fib1Iterations == FIB1_LOOP_TO - FIB1_LOOP_FROM

\* Mutant: the selector enabled only while row < nrows - 2.
RECURSIVE Fib2LoopShortSelector(_, _, _, _)
Fib2LoopShortSelector(row, nrows, start, acc) ==
  IF row >= nrows THEN acc
  ELSE LET a_cell == acc.b
           b_cell == acc.c
           a == FAdd(a_cell.value, b_cell.value)
           b == FAdd(b_cell.value, a)
       IN  Fib2LoopShortSelector(row + 1, nrows, start,
             RegionResult(
               AssignAdvice("col_a", start + row, a)
                 @@ AssignAdvice("col_b", start + row, b) @@ acc.cells,
               acc.sels \cup (IF row < nrows - 2 THEN {<<"selector", start + row>>} ELSE {}),
               acc.copies,
               row + 1,
               AssignedCell("col_a", start + row, a),
               AssignedCell("col_b", start + row, b)))

\* example2 assign_row, the loop for row in 1..nrows: the selector is enabled
\* while row < nrows - 1; a = a + b, then b = b + a.
RECURSIVE Fib2Loop(_, _, _, _)
Fib2Loop(row, nrows, start, acc) ==
  IF row >= nrows THEN acc
  ELSE LET a_cell == acc.b
           b_cell == acc.c
           a == FAdd(a_cell.value, b_cell.value)
           b == FAdd(b_cell.value, a)
       IN  Fib2Loop(row + 1, nrows, start,
             RegionResult(
               AssignAdvice("col_a", start + row, a)
                 @@ AssignAdvice("col_b", start + row, b) @@ acc.cells,
               acc.sels \cup (IF row < nrows - 1 THEN {<<"selector", start + row>>} ELSE {}),
               acc.copies,
               row + 1,
               AssignedCell("col_a", start + row, a),
               AssignedCell("col_b", start + row, b)))

\* example2 assign_row: the whole table in one region
Fib2AssignRow(start, inst, nrows) ==
  LET a == InstVal(inst, 0)
      b == InstVal(inst, 1)
  IN  Fib2Loop(1, nrows, start,
        RegionResult(
          AssignAdvice("col_a", start, a) @@ AssignAdvice("col_b", start, b),
          {<<"selector", start>>},
          << CopyConstraint(Cell("col_a", start), Cell("instance", 0)),
             CopyConstraint(Cell("col_b", start), Cell("instance", 1)) >>,
          1,
          AssignedCell("col_a", start, a),
          AssignedCell("col_b", start, b)))

\* Mutant: the selector enabled only while row < nrows - 3.
RECURSIVE Fib3LoopShortSelector(_, _, _, _)
Fib3LoopShortSelector(row, nrows, start, acc) ==
  IF row >= nrows THEN acc
  ELSE LET a_cell == acc.b
           b_cell == acc.c
           c == FAdd(a_cell.value, b_cell.value)
       IN  Fib3LoopShortSelector(row + 1, nrows, start,
             RegionResult(
               AssignAdvice("advice", start + row, c) @@ acc.cells,
               acc.sels \cup (IF row < nrows - 3 THEN {<<"selector", start + row>>} ELSE {}),
               acc.copies,
               row + 1,
               b_cell,
               AssignedCell("advice", start + row, c)))

\* example3 assign_row, the loop for row in 2..nrows: the selector is enabled
\* while row < nrows - 2; c = a + b, then a = b, b = c.
RECURSIVE Fib3Loop(_, _, _, _)
Fib3Loop(row, nrows, start, acc) ==
  IF row >= nrows THEN acc
  ELSE LET a_cell == acc.b
           b_cell == acc.c
           c == FAdd(a_cell.value, b_cell.value)
       IN  Fib3Loop(row + 1, nrows, start,
             RegionResult(
               AssignAdvice("advice", start + row, c) @@ acc.cells,
               acc.sels \cup (IF row < nrows - 2 THEN {<<"selector", start + row>>} ELSE {}),
               acc.copies,
               row + 1,
               b_cell,
               AssignedCell("advice", start + row, c)))

\* example3 assign_row: selector on rows 0 and 1, f(0) and f(1) from the instance
Fib3AssignRow(start, inst, nrows) ==
  LET a == InstVal(inst, 0)
      b == InstVal(inst, 1)
  IN  Fib3Loop(2, nrows, start,
        RegionResult(
          AssignAdvice("advice", start, a) @@ AssignAdvice("advice", start + 1, b),
          {<<"selector", start>>, <<"selector", start + 1>>},
          << CopyConstraint(Cell("advice", start), Cell("instance", 0)),
             CopyConstraint(Cell("advice", start + 1), Cell("instance", 1)) >>,
          2,
          AssignedCell("advice", start, a),
          AssignedCell("advice", start + 1, b)))

\* Mutant: a repeated call binds the row below the one asked for.
ExposePublicCopyShifted(cell, row) ==
  CopyConstraint(cell.cell, Cell("instance", row - exposeCount))

\* expose_public: constrain_instance(cell, instance, row)
ExposePublicCopy(cell, row) == CopyConstraint(cell.cell, Cell("instance", row))

\* The is-zero gadget's assign: the inverse witness value.invert().unwrap_or(0)
IsZeroAssign(start, value) == AssignAdvice("is_zero_advice_col", start, InvertOrZero(value))

\* Mutant: the else branch returns b - a.
FuncOutputSwapped(a, b, c) == IF a = b THEN c ELSE FSub(b, a)

\* example4 FunctionChip::assign: output = if a == b {c} else {a - b}
FuncOutput(a, b, c) == IF a = b THEN c ELSE FSub(a, b)

FuncAssign(start, a, b, c) ==
  RegionResult(
    AssignAdvice("col_a", start, a) @@ AssignAdvice("col_b", start, b)
      @@ AssignAdvice("col_c", start, c) @@ IsZeroAssign(start, FSub(a, b))
      @@ AssignAdvice("output", start, FuncOutput(a, b, c)),
    {<<"selector", start>>}, << >>, 1, NoCell, AssignedCell("output", start, FuncOutput(a, b, c)))

\* range_check/example1 RangeCheckChip::assign
Range1Assign(start, v) ==
  RegionResult(AssignAdvice("value", start, v), {<<"q_range_check", start>>},
               << >>, 1, NoCell, AssignedCell("value", start, v))

\* Mutant: the lookup is taken from num_bits = RANGE_CHECK_BITS on.
Range2SelectorStrict(num_bits) ==
  IF num_bits < RANGE_CHECK_BITS THEN "q_range_check" ELSE "q_lookup"

\* range_check/example2 RangeCheckConfig::assign, after its assert: the
\* range-check expression for num_bits <= RANGE_CHECK_BITS, else the lookup
Range2Selector(num_bits) ==
  IF num_bits <= RANGE_CHECK_BITS THEN "q_range_check" ELSE "q_lookup"

Range2Assign(start, v, num_bits) ==
  RegionResult(AssignAdvice("value", start, v), {<<Range2Selector(num_bits), start>>},
               << >>, 1, NoCell, AssignedCell("value", start, v))

\* Mutant: the loop stops one short, for i in 0..(1 << NUM_BITS) - 1.
TableAssignShort == [i \in 1 .. (2 ^ NUM_BITS - 1) |-> <<i - 1, FromU64(i - 1)>>]

\* Mutant: the loop starts at 1, for i in 1..=(1 << NUM_BITS).
TableAssignFromOne(num_bits) == [i \in 1 .. (2 ^ num_bits) |-> <<i - 1, FromU64(i)>>]

\* RangeCheckTable::<F, NUM_BITS>::assign for any NUM_BITS:
\* for i in 0..(1 << NUM_BITS), cell i holds F::from(i)
TableAssignFor(num_bits) == [i \in 1 .. (2 ^ num_bits) |-> <<i - 1, FromU64(i - 1)>>]

\* RangeCheckTable::assign with the NUM_BITS = 8 of the example
TableAssignCells == TableAssignFor(NUM_BITS)

\* ------------------------------------------------------- equality classes

\* The cells joined to those of S by the copy constraints cps (the classes a
\* union-find over the constraints builds).
RECURSIVE Reach(_, _)
Reach(S, cps) ==
  LET T == S \cup {cps[i][2] : i \in {j \in 1 .. Len(cps) : cps[j][1] \in S}}
             \cup {cps[i][1] : i \in {j \in 1 .. Len(cps) : cps[j][2] \in S}}
  IN  IF T = S THEN S ELSE Reach(T, cps)

SameClass(a, b, cps) == b \in Reach({a}, cps)

\* ---------------------------------------------------------------- checker

Failure(kind, gate, index, name, row, cells, value) ==
  [kind |-> kind, gate |-> gate, index |-> index, name |-> name, row |-> row,
   cells |-> cells, value |-> value]

\* All the violations of every gate at every row.
AllGateFailures(c, csys, g, s) ==
  UNION { UNION {
    LET e == GateEval(c, gate, g, s, row)
    IN  { Failure("gate", gate, i - 1, ConstraintName(c, gate, i - 1), row,
                  GateCells(c, gate, row), e[i]) : i \in {j \in 1 .. Len(e) : e[j] # 0} }
    : row \in Rows(c) } : gate \in csys.gates }

\* Mutant: the gate check stops at the first row that has a violation.
GateFailuresFirstRow(c, csys, g, s) ==
  LET all == AllGateFailures(c, csys, g, s)
  IN  {f \in all : \A h \in all : f.row <= h.row}

\* Step 1: every gate at every row; a non-zero sub-constraint is a violation.
GateFailures(c, csys, g, s) ==
  UNION { UNION {
    LET e == GateEval(c, gate, g, s, row)
    IN  { Failure("gate", gate, i - 1, ConstraintName(c, gate, i - 1), row,
                  GateCells(c, gate, row), e[i]) : i \in {j \in 1 .. Len(e) : e[j] # 0} }
    : row \in Rows(c) } : gate \in csys.gates }

\* Step 2: every copy constraint whose two cells hold different values.
CopyFailures(g, inst, cps) ==
  { Failure("copy", "", 0, "", cps[i][1][2], {cps[i][1], cps[i][2]}, 0) :
      i \in {j \in 1 .. Len(cps) : AnyVal(g, inst, cps[j][1]) # AnyVal(g, inst, cps[j][2])} }

\* The table column's values; its unassigned rows hold the default, zero when
\* nothing was assigned and otherwise the first assigned value.
TableValues(tbl) == IF Len(tbl) = 0 THEN {0} ELSE {tbl[i][2] : i \in 1 .. Len(tbl)}

\* Step 3: every row whose lookup input is absent from the table.
LookupFailures(c, csys, g, s, tbl) ==
  IF csys.lookups = {} THEN {}
  ELSE LET tv == TableValues(tbl)
       IN  { Failure("lookup", "lookup", 0, "", row, {Cell("value", row)},
                     Range2LookupInput(g, s, row)) :
               row \in {r \in Rows(c) : Range2LookupInput(g, s, r) \notin tv} }

\* Mutant: the checks run gates, copies, lookups and stop at the first kind
\* that finds a violation.
VerifyFailuresFirstKind(c, csys, g, s, cps, tbl, inst) ==
  IF GateFailures(c, csys, g, s) # {} THEN GateFailures(c, csys, g, s)
  ELSE IF CopyFailures(g, inst, cps) # {} THEN CopyFailures(g, inst, cps)
  ELSE LookupFailures(c, csys, g, s, tbl)

VerifyFailures(c, csys, g, s, cps, tbl, inst) ==
  GateFailures(c, csys, g, s) \cup CopyFailures(g, inst, cps)
    \cup LookupFailures(c, csys, g, s, tbl)

\* ------------------------------------------------------------------ inputs

Deltas == (1 .. MaxDelta) \cup {P - d : d \in 1 .. MaxDelta}
FuncVals == (0 .. MaxFuncVal) \cup {12, 15, P - 1}
Seeds == 1 .. MaxSeed
\* Public outputs tried: the spec's 12 and 13, and the tenth term for each seed pair.
OutVals == {12, 13} \cup {FromU64(21 * x0 + 34 * x1) : x0 \in Seeds, x1 \in Seeds}
NumBitsChoices == {0, RANGE_CHECK_BITS, RANGE_CHECK_BITS + 1, NUM_BITS, NUM_BITS + 1}

\* The k a caller may supply: the test's, the ones just below it, and 0.
KChoices(c) == {0} \cup {x \in (KOf(c) - MaxShrink) .. KOf(c) : x >= 0}

\* The nrows a caller may hand assign_row: 2..MaxNRows and the two the examples use.
NRowsChoices == (2 .. MaxNRows) \cup {FIB2_NROWS, FIB3_NROWS}

\* ------------------------------------------------------------------- state

\* Nothing is configured or assigned when the prover starts.
InitState ==
  /\ cs = EmptyCS
  /\ advice = << >>
  /\ selectors = {}
  /\ copies = << >>
  /\ table = << >>
  /\ offset = 0
  /\ regions = << >>
  /\ pc = "configure"
  /\ step = 0
  /\ prev_b = NoCell
  /\ prev_c = NoCell
  /\ exposeCount = 0
  /\ tamper = NoTamper
  /\ failures = {}

\* Each example run as its test runs it (k, nrows), on a range of inputs.
Init ==
  /\ circuit \in Circuits
  /\ k = KOf(circuit)
  /\ nrowsArg = NRowsOf(circuit)
  /\ instance \in IF circuit \in FibCircuits
                  THEN {<<x0, x1, x2>> : x0 \in Seeds, x1 \in Seeds, x2 \in OutVals}
                  ELSE {<< >>}
  /\ input \in
       CASE circuit \in FibCircuits -> {NoInput}
         [] circuit = "func" ->
              {[NoInput EXCEPT !.a = a, !.b = b, !.c = c] :
                 a \in FuncVals, b \in FuncVals, c \in FuncVals}
         [] circuit = "rc1" -> {[NoInput EXCEPT !.v = v] : v \in Fp}
         [] circuit = "rc2" ->
              {[NoInput EXCEPT !.v = v, !.num_bits = nb] : v \in Fp, nb \in NumBitsChoices}
  /\ InitState

\* Each example run on the inputs of its test (and the rejected ones the spec
\* names) with a caller-supplied k.
InitSized ==
  /\ circuit \in Circuits
  /\ k \in KChoices(circuit)
  /\ nrowsArg = NRowsOf(circuit)
  /\ instance \in IF circuit \in FibCircuits THEN {<<1, 1, 55>>, <<1, 1, 12>>} ELSE {<< >>}
  /\ input \in
       CASE circuit \in FibCircuits -> {NoInput}
         [] circuit = "func" -> {[NoInput EXCEPT !.a = 12, !.b = 12, !.c = 15]}
         [] circuit = "rc1" -> {[NoInput EXCEPT !.v = v] : v \in {2, RANGE}}
         [] circuit = "rc2" ->
              {[NoInput EXCEPT !.v = v, !.num_bits = nb] :
                 v \in {6, 55, 2 ^ NUM_BITS}, nb \in {RANGE_CHECK_BITS, NUM_BITS}}
  /\ InitState

\* The two rotation layouts, with assign_row called on any nrows.
InitRows ==
  /\ circuit \in {"fib2", "fib3"}
  /\ k = KOf(circuit)
  /\ nrowsArg \in NRowsChoices
  /\ instance = <<1, 1, 55>>
  /\ input = NoInput
  /\ InitState

\* Circuit::configure: runs once and builds the constraint system.
Configure ==
  /\ pc = "configure"
  /\ cs' = ConfigureCS(circuit)
  /\ pc' = "synthesize"
  /\ UNCHANGED <<k, nrowsArg, circuit, instance, input, advice, selectors, copies, table, offset,
                 regions, step, prev_b, prev_c, exposeCount, tamper, failures>>

\* layouter.assign_region(name, body): the region is placed at the running
\* offset, which then moves past its rows, and synthesize goes on at `next`;
\* a region that needs rows past the 2^k of the grid is a configuration
\* error, which ends the run without a verdict.
PlaceRegion(name, r, next) ==
  IF offset + r.rows <= NRows(circuit)
  THEN /\ advice' = r.cells @@ advice
       /\ selectors' = selectors \cup r.sels
       /\ copies' = copies \o r.copies
       /\ regions' = Append(regions, [name |-> name, start |-> offset, rows |-> r.rows])
       /\ offset' = offset + r.rows
       /\ prev_b' = r.b
       /\ prev_c' = r.c
       /\ step' = step + 1
       /\ pc' = next
  ELSE /\ pc' = "error"
       /\ UNCHANGED <<advice, selectors, copies, regions, offset, prev_b, prev_c, step>>

\* example1 synthesize, first statement
SynthFib1First ==
  /\ pc = "synthesize" /\ circuit = "fib1" /\ step = 0
  /\ PlaceRegion("first row", Fib1FirstRow(offset, instance), "synthesize")
  /\ UNCHANGED <<k, nrowsArg, circuit, instance, input, cs, table, exposeCount, tamper, failures>>

\* example1 synthesize, one iteration of the loop
SynthFib1Next ==
  /\ pc = "synthesize" /\ circuit = "fib1" /\ step \in 1 .. Fib1Iterations
  /\ PlaceRegion("next row", Fib1AssignRow(offset, prev_b, prev_c), "synthesize")
  /\ UNCHANGED <<k, nrowsArg, circuit, instance, input, cs, table, exposeCount, tamper, failures>>

\* example2 synthesize: chip.assign_row(.., nrows), which it calls with 5
SynthFib2 ==
  /\ pc = "synthesize" /\ circuit = "fib2" /\ step = 0
  /\ PlaceRegion("entire fibonacci table", Fib2AssignRow(offset, instance, nrowsArg),
                 "synthesize")
  /\ UNCHANGED <<k, nrowsArg, circuit, instance, input, cs, table, exposeCount, tamper, failures>>

\* example3 synthesize: chip.assign_row(.., nrows), which it calls with 10
SynthFib3 ==
  /\ pc = "synthesize" /\ circuit = "fib3" /\ step = 0
  /\ PlaceRegion("entire fibonacci table", Fib3AssignRow(offset, instance, nrowsArg),
                 "synthesize")
  /\ UNCHANGED <<k, nrowsArg, circuit, instance, input, cs, table, exposeCount, tamper, failures>>

\* The number of regions a Fibonacci synthesize requests before expose_public.
FibRegions(c) == IF c = "fib1" THEN 1 + Fib1Iterations ELSE 1

\* The last statement of the Fibonacci synthesize: expose_public(cell, 2); a
\* caller may repeat the call with the same arguments.
ExposePublic ==
  /\ circuit \in FibCircuits
  /\ \/ pc = "synthesize" /\ step = FibRegions(circuit)
     \/ pc = "synthesized" /\ ~tamper.done /\ exposeCount < MaxExpose
  /\ copies' = Append(copies, ExposePublicCopy(prev_c, OUT_ROW))
  /\ exposeCount' = exposeCount + 1
  /\ pc' = "synthesized"
  /\ UNCHANGED <<k, nrowsArg, circuit, instance, input, cs, advice, selectors, table, offset,
                 regions, step, prev_b, prev_c, tamper, failures>>

\* example4 synthesize: chip.assign(layouter, a, b, c)
SynthFunc ==
  /\ pc = "synthesize" /\ circuit = "func"
  /\ PlaceRegion("f(a, b, c) = if a=b {c} else {a-b}",
                 FuncAssign(offset, input.a, input.b, input.c), "synthesized")
  /\ UNCHANGED <<k, nrowsArg, circuit, instance, input, cs, table, exposeCount, tamper, failures>>

\* range_check/example1 synthesize: chip.assign(layouter, v)
SynthRange1 ==
  /\ pc = "synthesize" /\ circuit = "rc1"
  /\ PlaceRegion("assign value", Range1Assign(offset, input.v), "synthesized")
  /\ UNCHANGED <<k, nrowsArg, circuit, instance, input, cs, table, exposeCount, tamper, failures>>

\* range_check/example2 synthesize, first statement: config.table.assign; a
\* table with more rows than the 2^k of the grid is a configuration error.
SynthRange2Table ==
  /\ pc = "synthesize" /\ circuit = "rc2" /\ step = 0
  /\ IF Len(TableAssignCells) <= NRows(circuit)
     THEN /\ table' = table \o TableAssignCells
          /\ step' = 1
          /\ pc' = "synthesize"
     ELSE /\ pc' = "error"
          /\ UNCHANGED <<table, step>>
  /\ UNCHANGED <<k, nrowsArg, circuit, instance, input, cs, advice, selectors, copies, offset,
                 regions, prev_b, prev_c, exposeCount, tamper, failures>>

\* range_check/example2 synthesize, second statement: config.assign(value, num_bits);
\* its assert!(num_bits <= NUM_BITS) aborts before any assignment.
SynthRange2Assign ==
  /\ pc = "synthesize" /\ circuit = "rc2" /\ step = 1
  /\ IF input.num_bits <= NUM_BITS
     THEN PlaceRegion("assign value", Range2Assign(offset, input.v, input.num_bits),
                      "synthesized")
     ELSE /\ pc' = "aborted"
          /\ UNCHANGED <<advice, selectors, copies, regions, offset, prev_b, prev_c, step>>
  /\ UNCHANGED <<k, nrowsArg, circuit, instance, input, cs, table, exposeCount, tamper, failures>>

\* The cells a perturbation may hit: every assigned cell, and the cells of the
\* first row past the last region when the grid has one.
TamperCells ==
  DOMAIN advice \cup {Cell(col, row) : col \in cs.advice, row \in {offset} \cap Rows(circuit)}

\* A witness other than the one synthesize computed: one advice cell of the
\* grid is changed to a different field value before the check.
Tamper ==
  /\ pc = "synthesized" /\ ~tamper.done
  /\ \E cell \in TamperCells, d \in Deltas :
       LET old == CellVal(advice, cell[1], cell[2])
           new == FAdd(old, d)
       IN  /\ advice' = (cell :> new) @@ advice
           /\ tamper' = [done |-> TRUE, cell |-> cell, old |-> old, new |-> new,
                         assigned |-> cell \in DOMAIN advice]
  /\ UNCHANGED <<k, nrowsArg, circuit, instance, input, cs, selectors, copies, table, offset,
                 regions, pc, step, prev_b, prev_c, exposeCount, failures>>

\* MockProver::verify: replay the grid against every constraint.
Verify ==
  /\ pc = "synthesized"
  /\ failures' = VerifyFailures(circuit, cs, advice, selectors, copies, table, instance)
  /\ pc' = "verified"
  /\ UNCHANGED <<k, nrowsArg, circuit, instance, input, cs, advice, selectors, copies, table, offset,
                 regions, step, prev_b, prev_c, exposeCount, tamper>>

\* The advice columns of a Fibonacci layout, in the order they are declared.
ColumnOrder(c) == IF c = "fib3" THEN <<"advice">>
                  ELSE IF c = "fib2" THEN <<"col_a", "col_b">>
                  ELSE <<"col_a", "col_b", "col_c">>

\* The cells of the rows the regions of synthesize occupy.
WitnessCells ==
  {Cell(ColumnOrder(circuit)[i], row) : i \in 1 .. Len(ColumnOrder(circuit)),
                                        row \in 0 .. (offset - 1)}

\* The first cell, row by row and column by column, that holds no value yet.
NextCell ==
  LET rest == WitnessCells \ DOMAIN advice
      row == CHOOSE r \in {x[2] : x \in rest} : \A x \in rest : r <= x[2]
      i == CHOOSE j \in 1 .. Len(ColumnOrder(circuit)) :
             /\ Cell(ColumnOrder(circuit)[j], row) \in rest
             /\ \A h \in 1 .. (j - 1) : Cell(ColumnOrder(circuit)[h], row) \notin rest
  IN  Cell(ColumnOrder(circuit)[i], row)

\* No constraint that `cell` is part of, and whose cells all hold a value in
\* the partial grid g, is violated: no sub-constraint of an enabled gate, no
\* copy constraint. Such a violation depends on those cells alone, so no
\* completion of g removes it.
PartialOK(g, cell) ==
  /\ \A x \in selectors :
       \A i \in 1 .. (IF circuit = "fib2" THEN 2 ELSE 1) :
         (/\ cell \in FibConstraintCells(circuit, i, x[2])
          /\ FibConstraintCells(circuit, i, x[2]) \subseteq DOMAIN g)
           => GateEval(circuit, "add", g, selectors, x[2])[i] = 0
  /\ \A j \in 1 .. Len(copies) :
       (/\ cell \in {copies[j][1], copies[j][2]}
        /\ {copies[j][1], copies[j][2]}
              \subseteq (DOMAIN g \cup {Cell("instance", r) : r \in 0 .. 2}))
         => AnyVal(g, instance, copies[j][1]) = AnyVal(g, instance, copies[j][2])

\* A prover other than synthesize: the circuit (selectors, copy constraints,
\* public inputs) stays, the advice values are dropped.
ForgetWitness ==
  /\ circuit \in FibCircuits /\ pc = "synthesized" /\ ~tamper.done
  /\ advice' = << >>
  /\ pc' = "witnessing"
  /\ UNCHANGED <<k, nrowsArg, circuit, instance, input, cs, selectors, copies, table, offset,
                 regions, step, prev_b, prev_c, exposeCount, tamper, failures>>

\* That prover gives the next cell any field value; a value that already
\* violates a constraint is not pursued.
AssignAny ==
  /\ pc = "witnessing" /\ DOMAIN advice # WitnessCells
  /\ \E cell \in {NextCell} : \E v \in Fp :
       /\ PartialOK((cell :> v) @@ advice, cell)
       /\ advice' = (cell :> v) @@ advice
  /\ UNCHANGED <<k, nrowsArg, circuit, instance, input, cs, selectors, copies, table, offset,
                 regions, pc, step, prev_b, prev_c, exposeCount, tamper, failures>>

\* MockProver::verify on the grid that prover filled.
VerifyAny ==
  /\ pc = "witnessing" /\ DOMAIN advice = WitnessCells
  /\ failures' = VerifyFailures(circuit, cs, advice, selectors, copies, table, instance)
  /\ pc' = "witness verified"
  /\ UNCHANGED <<k, nrowsArg, circuit, instance, input, cs, advice, selectors, copies, table,
                 offset, regions, step, prev_b, prev_c, exposeCount, tamper>>

\* What every circuit goes through: configure, the optional perturbation, verify.
Common ==
  \/ Configure
  \/ Tamper
  \/ Verify

FibSynth ==
  \/ SynthFib1First
  \/ SynthFib1Next
  \/ SynthFib2
  \/ SynthFib3
  \/ ExposePublic

RangeSynth ==
  \/ SynthRange1
  \/ SynthRange2Table
  \/ SynthRange2Assign

Next == FibSynth \/ RangeSynth \/ SynthFunc \/ Common

Spec == Init /\ [][Next]_vars

\* The three Fibonacci circuits alone.
InitFib == Init /\ circuit \in FibCircuits
NextFib == FibSynth \/ Common
SpecFib == InitFib /\ [][NextFib]_vars

\* The two range-check circuits alone.
InitRange == Init /\ circuit \in RangeCircuits
NextRange == RangeSynth \/ Common
SpecRange == InitRange /\ [][NextRange]_vars

\* The conditional-selection circuit alone.
InitFunc == Init /\ circuit = "func"
NextFunc == SynthFunc \/ Common
SpecFunc == InitFunc /\ [][NextFunc]_vars

\* Every circuit, with a caller-supplied k.
SpecSized == InitSized /\ [][Next]_vars

\* assign_row of the two rotation layouts, for any nrows.
NextRows == SynthFib2 \/ SynthFib3 \/ ExposePublic \/ Common
SpecRows == InitRows /\ [][NextRows]_vars

\* The Fibonacci circuits on each pair of seeds, against the 10th term of the
\* pair and against the spec's 12.
InitSound ==
  /\ circuit \in FibCircuits
  /\ k = KOf(circuit)
  /\ nrowsArg = NRowsOf(circuit)
  /\ instance \in {i \in {<<x0, x1, x2>> : x0 \in Seeds, x1 \in Seeds, x2 \in OutVals} :
                     i[3] \in {12, FromU64(21 * i[1] + 34 * i[2])}}
  /\ input = NoInput
  /\ InitState

\* The three Fibonacci circuits checked on the grids of any prover.
NextSound == FibSynth \/ Configure \/ ForgetWitness \/ AssignAny \/ VerifyAny
SpecSound == InitSound /\ [][NextSound]_vars

\* ----------------------------------------------------------------- claims

Verified == pc = "verified"
Clean == ~tamper.done
Satisfied == failures = {}

\* The violation of the copy constraint between the exposed cell and the
\* public-input row it is bound to.
ExposedCopyFailure == Failure("copy", "", 0, "", prev_c.cell[2],
                              {prev_c.cell, Cell("instance", OUT_ROW)}, 0)

\* C1: each of the three Fibonacci layouts, run on the public inputs
\* [1, 1, 55] of its test, is satisfied, and the cell bound to instance row 2
\* holds 55.
C1_FibTestSatisfied ==
  (Verified /\ Clean /\ circuit \in FibCircuits /\ instance = <<1, 1, 55>>)
    => /\ Satisfied
       /\ prev_c.value = 55
       /\ AnyVal(advice, instance, prev_c.cell) = 55
       /\ \E i \in 1 .. Len(copies) :
            copies[i] = CopyConstraint(prev_c.cell, Cell("instance", OUT_ROW))

C1_Witness ==
  /\ Verified /\ Clean /\ circuit = "fib3" /\ instance = <<1, 1, 55>>
  /\ Satisfied /\ prev_c = AssignedCell("advice", 9, 55)

\* C2 as stated: the two-column layout seeded 1, 1 over 5 rows exposes 13; it
\* is satisfied against 13 and has exactly the instance copy violation against 12.
C2_Original ==
  (Verified /\ Clean /\ circuit = "fib2" /\ instance[1] = 1 /\ instance[2] = 1)
    => /\ prev_c.value = 13
       /\ instance[3] = 13 => Satisfied
       /\ instance[3] = 12 => failures = {ExposedCopyFailure}

\* C2 amended: the two-column layout seeded 1, 1 over 5 rows exposes 55 (each
\* row advances the recurrence by two terms); it is satisfied against 55, and
\* against 12 or 13 the only violation is the copy constraint between the
\* exposed cell (col_b, row 4) and instance row 2.
C2_TwoColumnExposes55 ==
  (Verified /\ Clean /\ circuit = "fib2" /\ instance[1] = 1 /\ instance[2] = 1)
    => /\ prev_c = AssignedCell("col_b", FIB2_NROWS - 1, 55)
       /\ instance[3] = 55 => Satisfied
       /\ instance[3] \in {12, 13} => failures = {ExposedCopyFailure}

C2_Witness ==
  /\ Verified /\ Clean /\ circuit = "fib2" /\ instance = <<1, 1, 12>>
  /\ failures = {ExposedCopyFailure}
  /\ prev_c.value = 55

\* C3: with RANGE = 8 the polynomial range check is satisfied exactly for
\* v in 0..7; any other v gives exactly one violation, the "range check"
\* sub-constraint of gate "range check" at the row of the value.
C3_RangeCheckExact ==
  (Verified /\ Clean /\ circuit = "rc1")
    => /\ Satisfied <=> input.v \in 0 .. (RANGE - 1)
       /\ input.v \notin 0 .. (RANGE - 1) =>
            /\ Cardinality(failures) = 1
            /\ \A f \in failures :
                 /\ f.kind = "gate" /\ f.gate = "range check"
                 /\ f.name = "range check" /\ f.index = 0
                 /\ f.row = 0 /\ f.cells = {Cell("value", 0)}

C3_Witness ==
  /\ Verified /\ Clean /\ circuit = "rc1" /\ input.v = RANGE
  /\ Cardinality(failures) = 1
  /\ \A f \in failures : f.kind = "gate" /\ f.row = 0

\* C4: with NUM_BITS = 8 the table holds exactly 0..255, value i at row i,
\* each row once; a value assigned with num_bits = 8 is satisfied exactly when
\* it is in 0..255, and 256 gives a lookup violation at its row.
C4_LookupRangeExact ==
  /\ (circuit = "rc2" /\ step >= 1) =>
       /\ Len(table) = 2 ^ NUM_BITS
       /\ \A i \in 1 .. Len(table) : table[i] = <<i - 1, i - 1>>
       /\ TableValues(table) = 0 .. 255
  /\ (Verified /\ Clean /\ circuit = "rc2" /\ input.num_bits = NUM_BITS) =>
       /\ Satisfied <=> input.v \in 0 .. 255
       /\ input.v = 256 =>
            \E f \in failures : f.kind = "lookup" /\ f.row = 0 /\ f.value = 256

C4_Witness ==
  /\ Verified /\ Clean /\ circuit = "rc2" /\ input.num_bits = NUM_BITS
  /\ input.v = 256
  /\ \E f \in failures : f.kind = "lookup" /\ f.row = 0 /\ f.value = 256

\* The selector assignment with the two forms of the range check exchanged.
FlipForm(s) ==
  {<<IF x[1] = "q_lookup" THEN "q_range_check" ELSE "q_lookup", x[2]>> : x \in s}

\* C5: for the range of size 2^NUM_BITS, the polynomial form (q_range_check
\* on the row) and the lookup form (q_lookup on the row) accept the same values.
C5_FormsAgree ==
  (Verified /\ circuit = "rc2")
    => (Satisfied <=>
          VerifyFailures(circuit, cs, advice, FlipForm(selectors), copies, table,
                         instance) = {})

C5_Witness ==
  /\ Verified /\ Clean /\ circuit = "rc2" /\ input.num_bits = RANGE_CHECK_BITS
  /\ <<"q_range_check", 0>> \in selectors
  /\ input.v = 2 ^ NUM_BITS
  /\ \E f \in failures : f.kind = "gate" /\ f.row = 0
  /\ \E f \in VerifyFailures(circuit, cs, advice, FlipForm(selectors), copies, table,
                             instance) : f.kind = "lookup" /\ f.row = 0

\* C6: for every a, b, c the witness of FunctionChip::assign (output = c when
\* a = b, else a - b; indicator 1 exactly when a - b = 0) satisfies every
\* sub-constraint on the enabled row.
C6_FunctionWitnessSatisfies ==
  (Verified /\ Clean /\ circuit = "func")
    => /\ Satisfied
       /\ <<"selector", 0>> \in selectors
       /\ CellVal(advice, "output", 0)
            = (IF input.a = input.b THEN input.c ELSE FSub(input.a, input.b))
       /\ IsZeroExpr(advice, 0) = (IF FSub(input.a, input.b) = 0 THEN 1 ELSE 0)
       /\ FuncGate(advice, selectors, 0) = <<0, 0>>

C6_Witness ==
  /\ Verified /\ Clean /\ circuit = "func"
  /\ input.a = 12 /\ input.b = 12 /\ input.c = 15
  /\ Satisfied /\ CellVal(advice, "output", 0) = 15

\* The advice cells that hold f(0) and f(1) in each Fibonacci layout.
SeedCells(c) ==
  IF c = "fib3" THEN <<Cell("advice", 0), Cell("advice", 1)>>
  ELSE <<Cell("col_a", 0), Cell("col_b", 0)>>

\* C7: assign_advice_from_instance copies the value and registers the copy
\* constraint: after synthesize, instance row i and the f(i) cell are in one
\* equality class and hold the same value, and the checker reports that copy
\* constraint for any grid whose seed cell differs from its instance row.
C7_SeedsBoundToInstance ==
  (circuit \in FibCircuits /\ pc \in {"synthesized", "verified"})
    => \A i \in 1 .. 2 :
         LET seed == SeedCells(circuit)[i]
             inst == Cell("instance", i - 1)
         IN  /\ SameClass(inst, seed, copies)
             /\ Clean => AnyVal(advice, instance, seed) = InstVal(instance, i - 1)
             /\ (Verified /\ AnyVal(advice, instance, seed) # InstVal(instance, i - 1))
                  => \E f \in failures : f.kind = "copy" /\ f.cells = {seed, inst}

C7_Witness ==
  /\ Verified /\ circuit \in FibCircuits /\ tamper.done
  /\ tamper.cell = SeedCells(circuit)[2]
  /\ AnyVal(advice, instance, tamper.cell) # InstVal(instance, 1)
  /\ \E f \in failures : f.kind = "copy" /\ f.cells = {tamper.cell, Cell("instance", 1)}

\* C8: a gate contributes no violation on a row where its selector is not
\* enabled, whatever the cells it queries hold: no reported gate violation is
\* on such a row, and on such a row every sub-constraint evaluates to zero
\* when all queried cells hold any one non-zero value.
C8_VacuousTruth ==
  /\ Verified =>
       \A f \in failures :
         f.kind = "gate" => <<GateSelector(circuit, f.gate), f.row>> \in selectors
  /\ (pc = "synthesized" /\ Clean) =>
       \A gate \in cs.gates, row \in Rows(circuit), w \in Deltas :
         <<GateSelector(circuit, gate), row>> \notin selectors =>
           LET e == GateEval(circuit, gate,
                             [x \in GateCells(circuit, gate, row) |-> w], selectors, row)
           IN  \A i \in 1 .. Len(e) : e[i] = 0

C8_Witness ==
  /\ Verified /\ tamper.done /\ tamper.new # 0
  /\ \A gate \in cs.gates : <<GateSelector(circuit, gate), tamper.cell[2]>> \notin selectors
  /\ \A f \in failures : f.row # tamper.cell[2]
  /\ circuit = "fib2" /\ tamper.cell[2] = FIB2_NROWS - 1
  /\ \E f \in failures : f.kind = "gate"

\* The checker's verdict on the grid as it was before the perturbation.
BaseSatisfied ==
  VerifyFailures(circuit, cs, (tamper.cell :> tamper.old) @@ advice, selectors,
                 copies, table, instance) = {}

Touched(cell) == \E f \in failures : cell \in f.cells

\* C9 as stated: in every example circuit, perturbing one assigned cell of a
\* satisfied grid makes the checker report a violation that touches the cell.
C9_Original ==
  (Verified /\ tamper.done /\ tamper.assigned /\ BaseSatisfied) => Touched(tamper.cell)

\* C9 amended: that holds in the three Fibonacci circuits; in the range-check
\* circuits the perturbed value is reported exactly when it is outside the
\* range, and a different value inside the range is accepted.
C9_Sensitivity ==
  (Verified /\ tamper.done /\ tamper.assigned /\ BaseSatisfied)
    => /\ circuit \in FibCircuits => Touched(tamper.cell)
       /\ circuit = "rc1" =>
            (Touched(tamper.cell) <=> tamper.new \notin 0 .. (RANGE - 1))
       /\ circuit = "rc2" =>
            (Touched(tamper.cell) <=> tamper.new \notin 0 .. (2 ^ NUM_BITS - 1))
       /\ circuit \in RangeCircuits => (Satisfied <=> ~Touched(tamper.cell))

C9_Witness ==
  /\ Verified /\ tamper.done /\ tamper.assigned /\ BaseSatisfied
  /\ circuit = "fib3" /\ tamper.cell = Cell("advice", 5)
  /\ Cardinality({f \in failures : tamper.cell \in f.cells}) = 3

\* The copy constraints without the repeated expose_public bindings.
BoundOnce == SubSeq(copies, 1, Len(copies) - (exposeCount - 1))

RowsNeeded ==
  CASE circuit = "fib1" -> 1 + (FIB1_LOOP_TO - FIB1_LOOP_FROM)
    [] circuit \in {"fib2", "fib3"} -> nrowsArg
    [] circuit = "rc2" -> 2 ^ NUM_BITS
    [] OTHER -> 1

\* C11: for a caller-supplied k the run ends in a configuration error, with no
\* verdict, exactly when a region or the lookup table needs more rows than
\* 2^k; nothing is placed past the grid. The 256-row table fits k = 9 (and 8)
\* and is rejected below; the 10-row single-column region fits k = 4.
C11_RowBound ==
  /\ pc = "error" => (RowsNeeded > 2 ^ k /\ failures = {})
  /\ pc \in {"synthesized", "verified"} => RowsNeeded <= 2 ^ k
  /\ offset <= 2 ^ k /\ Len(table) <= 2 ^ k
  /\ \A cell \in DOMAIN advice : tamper.done \/ cell[2] < 2 ^ k
  /\ \A i \in 1 .. Len(regions) : regions[i].start + regions[i].rows <= 2 ^ k
  /\ (circuit = "rc2" /\ 2 ^ k < 2 ^ NUM_BITS) => pc \in {"configure", "synthesize", "error"}
  /\ circuit = "rc2" /\ k = K_RANGE2 => pc # "error"
  /\ circuit = "fib3" /\ k = K_FIB => pc # "error"

C11_Witness ==
  /\ circuit = "rc2" /\ k = K_RANGE2 - 2 /\ pc = "error"
  /\ table = << >> /\ advice = << >> /\ failures = {}

\* Sub-constraint i of gate `gate` is enabled and non-zero at `row`.
GateViolated(gate, row, i) ==
  /\ <<GateSelector(circuit, gate), row>> \in selectors
  /\ GateEval(circuit, gate, advice, selectors, row)[i] # 0

\* The cells that copy constraints refer to.
CopyCells == UNION {{copies[i][1], copies[i][2]} : i \in 1 .. Len(copies)}

\* Cells a and b are in one equality class and hold different values.
ClassViolated(a, b) ==
  /\ SameClass(a, b, copies)
  /\ AnyVal(advice, instance, a) # AnyVal(advice, instance, b)

\* The lookup is enabled at `row` and its input is absent from the table.
LookupViolated(row) ==
  /\ cs.lookups # {}
  /\ <<"q_lookup", row>> \in selectors
  /\ FMul(1, CellVal(advice, "value", row)) \notin {table[i][2] : i \in 1 .. Len(table)}

\* C12: the checker's result is complete. It is 'satisfied' exactly when no
\* enabled gate sub-constraint is non-zero, no equality class holds two
\* different values and no enabled lookup input is absent from the table;
\* otherwise the list holds every such violation, whatever its row or kind,
\* and nothing that is not one.
C12_CheckerComplete ==
  Verified =>
    /\ Satisfied <=>
         /\ \A gate \in cs.gates, row \in Rows(circuit) :
              \A i \in 1 .. Len(GateEval(circuit, gate, advice, selectors, row)) :
                ~GateViolated(gate, row, i)
         /\ \A a \in CopyCells, b \in CopyCells : ~ClassViolated(a, b)
         /\ \A row \in Rows(circuit) : ~LookupViolated(row)
    /\ \A gate \in cs.gates, row \in Rows(circuit) :
         \A i \in 1 .. Len(GateEval(circuit, gate, advice, selectors, row)) :
           GateViolated(gate, row, i) <=>
             \E f \in failures : /\ f.kind = "gate" /\ f.gate = gate
                                  /\ f.row = row /\ f.index = i - 1
    /\ \A a \in CopyCells, b \in CopyCells :
         ClassViolated(a, b) =>
           \E f \in failures : f.kind = "copy" /\ f.cells \subseteq Reach({a}, copies)
    /\ \A j \in 1 .. Len(copies) :
         (AnyVal(advice, instance, copies[j][1]) # AnyVal(advice, instance, copies[j][2]))
           <=> \E f \in failures : f.kind = "copy" /\ f.cells = {copies[j][1], copies[j][2]}
    /\ \A row \in Rows(circuit) :
         LookupViolated(row) <=> \E f \in failures : f.kind = "lookup" /\ f.row = row
    /\ \A f \in failures : f.kind \in {"gate", "copy", "lookup"}

C12_Witness ==
  /\ Verified /\ circuit = "fib3" /\ tamper.done /\ tamper.cell = Cell("advice", 1)
  /\ \E f \in failures : f.kind = "copy" /\ tamper.cell \in f.cells
  /\ \E f \in failures : f.kind = "gate" /\ f.row = 0
  /\ \E f \in failures : f.kind = "gate" /\ f.row = 1

\* C13: RangeCheckConfig::assign enables exactly one selector in the single
\* row of its region: q_range_check when num_bits <= RANGE_CHECK_BITS,
\* q_lookup when num_bits > RANGE_CHECK_BITS, never both and never neither;
\* with num_bits > NUM_BITS it aborts before assigning anything.
C13_OneSelector ==
  circuit = "rc2" =>
    /\ pc \in {"synthesized", "verified"} =>
         /\ input.num_bits <= NUM_BITS
         /\ Len(regions) = 1 /\ regions[1].rows = 1
         /\ selectors =
              {<<IF input.num_bits <= RANGE_CHECK_BITS THEN "q_range_check" ELSE "q_lookup",
                 regions[1].start>>}
         /\ Cardinality(selectors) = 1
         /\ Clean => advice = Cell("value", regions[1].start) :> input.v
    /\ pc = "aborted" =>
         /\ input.num_bits > NUM_BITS
         /\ advice = << >> /\ selectors = {} /\ regions = << >> /\ offset = 0
    /\ (input.num_bits > NUM_BITS /\ pc # "aborted") =>
         (advice = << >> /\ selectors = {} /\ pc \in {"configure", "synthesize"})

C13_Witness ==
  /\ circuit = "rc2" /\ pc = "synthesized" /\ Clean
  /\ input.num_bits = RANGE_CHECK_BITS
  /\ selectors = {<<"q_range_check", 0>>}

\* The rows of the i-th region placed.
RegionRows(i) == regions[i].start .. (regions[i].start + regions[i].rows - 1)

\* C14: regions are placed in request order at an increasing offset and never
\* share a row: each region starts where the one before it ended, so every
\* later region lies below every earlier one and every assigned cell is in
\* exactly one region; in example1 the i-th region (i = 0..7) is row i.
C14_RegionsInOrder ==
  /\ \A i \in 1 .. Len(regions) :
       /\ regions[i].rows >= 1
       /\ regions[i].start = (IF i = 1 THEN 0 ELSE regions[i - 1].start + regions[i - 1].rows)
       /\ \A j \in 1 .. (i - 1) : \A r \in RegionRows(j) : regions[i].start > r
  /\ offset = (IF regions = << >> THEN 0
               ELSE regions[Len(regions)].start + regions[Len(regions)].rows)
  /\ Clean => \A cell \in DOMAIN advice :
                Cardinality({i \in 1 .. Len(regions) : cell[2] \in RegionRows(i)}) = 1
  /\ circuit = "fib1" =>
       /\ Len(regions) = step
       /\ pc \in {"synthesized", "verified"} => Len(regions) = 8
       /\ \A i \in 1 .. Len(regions) :
            /\ RegionRows(i) = {i - 1}
            /\ Clean => \A col \in {"col_a", "col_b", "col_c"} :
                          Cell(col, i - 1) \in DOMAIN advice
            /\ <<"selector", i - 1>> \in selectors

C14_Witness ==
  /\ circuit = "fib1" /\ pc = "synthesized" /\ Clean
  /\ Len(regions) = 8 /\ regions[8].start = 7 /\ offset = 8
  /\ prev_c = AssignedCell("col_c", 7, 55)

\* C16: in example1 every assign_row region is chained to the one before it:
\* (col_a, i+1) is in the equality class of (col_b, i), (col_b, i+1) in that
\* of (col_c, i), and the copies hold the values of their sources.
C16_RowsChained ==
  circuit = "fib1" =>
    \A i \in 0 .. (Len(regions) - 2) :
      /\ SameClass(Cell("col_a", i + 1), Cell("col_b", i), copies)
      /\ SameClass(Cell("col_b", i + 1), Cell("col_c", i), copies)
      /\ Clean =>
           /\ CellVal(advice, "col_a", i + 1) = CellVal(advice, "col_b", i)
           /\ CellVal(advice, "col_b", i + 1) = CellVal(advice, "col_c", i)
           /\ CellVal(advice, "col_c", i + 1)
                = FAdd(CellVal(advice, "col_b", i), CellVal(advice, "col_c", i))

C16_Witness ==
  /\ circuit = "fib1" /\ pc = "synthesized" /\ Clean /\ Len(regions) = 8
  /\ instance = <<1, 1, 55>>
  /\ SameClass(Cell("col_a", 7), Cell("col_b", 6), copies)
  /\ CellVal(advice, "col_a", 7) = 21 /\ CellVal(advice, "col_b", 6) = 21
  /\ CellVal(advice, "col_b", 7) = 34 /\ CellVal(advice, "col_c", 6) = 34

\* The three kinds of check, and the orders they can be run in.
CheckKinds == {"gate", "copy", "lookup"}
CheckOrders ==
  {o \in [1 .. 3 -> CheckKinds] : \A i \in 1 .. 3, j \in 1 .. 3 : o[i] = o[j] => i = j}

\* What one kind of check finds on the grid.
CheckKind(kind) ==
  CASE kind = "gate" -> GateFailures(circuit, cs, advice, selectors)
    [] kind = "copy" -> CopyFailures(advice, instance, copies)
    [] kind = "lookup" -> LookupFailures(circuit, cs, advice, selectors, table)

\* The checks run one kind after the other in the given order.
RECURSIVE CheckInOrder(_, _)
CheckInOrder(order, acc) ==
  IF order = << >> THEN acc
  ELSE CheckInOrder(Tail(order), acc \cup CheckKind(Head(order)))

\* The grid g with only the cells of S assigned.
Only(g, S) == [x \in S \cap DOMAIN g |-> g[x]]

C17_Original ==
  (circuit \in {"fib2", "fib3"} /\ pc = "synthesized" /\ Clean /\ nrowsArg >= 2)
    => \A x \in selectors :
         \A cell \in GateCells(circuit, "add", x[2]) :
           /\ cell \in DOMAIN advice
           /\ cell[2] \in regions[1].start .. (regions[1].start + nrowsArg - 1)

\* The is-zero indicator of the row is 1 when a = b and 0 when a # b.
IndicatorCorrect(g, row) ==
  IsZeroExpr(g, row) = (IF CellVal(g, "col_a", row) = CellVal(g, "col_b", row) THEN 1 ELSE 0)

\* C18: the conditional-selection gate is sound and its branches exclude each
\* other. On the enabled row, with the indicator 1 when a = b and 0 when
\* a # b, exactly one sub-constraint has a non-zero factor on the output, and
\* an output value zeroes both sub-constraints exactly when it is c (a = b)
\* or a - b (a # b).
C18_SelectionSound ==
  (circuit = "func" /\ pc \in {"synthesized", "verified"} /\ IndicatorCorrect(advice, 0))
    => LET a == CellVal(advice, "col_a", 0)
           b == CellVal(advice, "col_b", 0)
           c == CellVal(advice, "col_c", 0)
           ind == IsZeroExpr(advice, 0)
       IN  /\ <<"selector", 0>> \in selectors
           /\ (ind # 0) # (FSub(1, ind) # 0)
           /\ \A o \in Fp :
                (FuncGate((Cell("output", 0) :> o) @@ advice, selectors, 0) = <<0, 0>>)
                  <=> o = (IF a = b THEN c ELSE FSub(a, b))
           /\ \A o \in Fp :
                LET e == FuncGate((Cell("output", 0) :> o) @@ advice, selectors, 0)
                IN  /\ a = b => e[2] = 0
                    /\ a # b => e[1] = 0

C18_Witness ==
  /\ circuit = "func" /\ Verified /\ IndicatorCorrect(advice, 0)
  /\ tamper.done /\ tamper.cell = Cell("output", 0)
  /\ CellVal(advice, "col_a", 0) # CellVal(advice, "col_b", 0)
  /\ \E f \in failures : f.kind = "gate" /\ f.gate = FuncGateName /\ f.index = 1
  /\ \A f \in failures : f.index = 1

\* C20 as stated: for every num_bits <= NUM_BITS, a value assigned through
\* RangeCheckConfig::assign(value, num_bits) passes the checker only if
\* value < 2^num_bits, on the range-check path and on the lookup path.
C20_Original ==
  (Verified /\ Clean /\ circuit = "rc2" /\ input.num_bits <= NUM_BITS /\ Satisfied)
    => input.v < 2 ^ input.num_bits

\* The 10th term of the additive recurrence seeded with x0, x1.
RECURSIVE Term(_, _, _)
Term(n, x0, x1) == IF n = 0 THEN x0 ELSE Term(n - 1, x1, FAdd(x0, x1))
TenthTerm == Term(9, instance[1], instance[2])

\* C19: the Fibonacci circuits are sound against any witness. For each layout
\* and instance vector [x0, x1, x2], a grid that passes every gate and copy
\* constraint is the one synthesize computes and has x2 equal to the 10th
\* term of the recurrence seeded with x0, x1; the grid of synthesize passes
\* exactly for that x2, so the three layouts accept the same instance vectors.
\* The cells outside the regions are read by no enabled gate and no copy
\* constraint.
C19_FibSound ==
  /\ pc \in {"witnessing", "witness verified"} =>
       /\ \A x \in selectors : GateCells(circuit, "add", x[2]) \subseteq WitnessCells
       /\ \A j \in 1 .. Len(copies), i \in 1 .. 2 :
            copies[j][i] \in WitnessCells \/ copies[j][i][1] = "instance"
  /\ (pc = "witnessing" /\ DOMAIN advice = WitnessCells) =>
       /\ instance[3] = TenthTerm
       /\ AnyVal(advice, instance, prev_c.cell) = TenthTerm
  /\ pc = "witness verified" =>
       /\ Satisfied
       /\ instance[3] = TenthTerm
       /\ prev_c.value = TenthTerm
       /\ \A cell \in WitnessCells :
            advice[cell] = Term(IF circuit = "fib1" THEN cell[2] + (CHOOSE i \in 1 .. 3 : ColumnOrder(circuit)[i] = cell[1]) - 1
                                ELSE IF circuit = "fib2" THEN 2 * cell[2] + (CHOOSE i \in 1 .. 2 : ColumnOrder(circuit)[i] = cell[1]) - 1
                                ELSE cell[2],
                                instance[1], instance[2])
  /\ (pc = "synthesized" /\ Clean) =>
       ((VerifyFailures(circuit, cs, advice, selectors, copies, table, instance) = {})
          <=> instance[3] = TenthTerm)

C19_Witness ==
  /\ pc = "witness verified" /\ circuit = "fib2" /\ Satisfied
  /\ instance = <<1, 2, 89>>
  /\ advice[Cell("col_b", 4)] = 89

\* C21: on every row where q_lookup is not enabled the lookup contributes no
\* violation, whatever the value column holds: its input q_lookup * value is
\* 0, and 0 is in the table RangeCheckTable::assign writes, for every
\* NUM_BITS >= 0.
C21_LookupVacuous ==
  /\ \A nb \in 0 .. MaxTableBits :
       /\ Len(TableAssignFor(nb)) = 2 ^ nb
       /\ 0 \in TableValues(TableAssignFor(nb))
  /\ (circuit = "rc2" /\ pc \in {"synthesized", "verified"}) =>
       /\ 0 \in TableValues(table)
       /\ {Range2LookupInput((Cell("value", row) :> w) @@ advice, selectors, row) :
             row \in {r \in Rows(circuit) : <<"q_lookup", r>> \notin selectors},
             w \in {2 ^ NUM_BITS, P - 1}} = {0}
       /\ {Range2LookupInput(advice, selectors, row) :
             row \in {r \in Rows(circuit) : <<"q_lookup", r>> \notin selectors}} = {0}
       /\ Verified =>
            \A f \in failures : f.kind = "lookup" => <<"q_lookup", f.row>> \in selectors

C21_Witness ==
  /\ Verified /\ Clean /\ circuit = "rc2"
  /\ input.num_bits = RANGE_CHECK_BITS /\ input.v = 2 ^ NUM_BITS
  /\ <<"q_lookup", 0>> \notin selectors
  /\ CellVal(advice, "value", 0) \notin TableValues(table)
  /\ \A f \in failures : f.kind = "gate"
  /\ failures # {}

====
